---- MODULE Spec2Model ----
\* Authentication middleware and password-reset flow of the REST API:
\* controllers/auth.controllers.js (login, forgotPassword, changePassword) and
\* middleware/auth.middleware.js (authorization), over the users collection;
\* and the role and permission checks middleware/authRole.js and
\* middleware/authPremiss.js on the route that deletes a user, over the users
\* and roles collections, with updateUser (specification SpecRbac); and
\* getAllUsers beside the password reset (specification SpecList).
\* Every handler is cut at its awaits on the store or the mail service; the
\* synchronous code between two awaits is one step.
EXTENDS Integers, Sequences, FiniteSets, TLC

\* ---------------------------------------------------------------- bounds
MaxConns == 2    \* client connections, each with at most one request in flight
MaxReqs == 3     \* requests served in one behaviour
MaxTicks == 1    \* advances of the clock by whole seconds in one behaviour
MaxMs == 1       \* advances of the clock within a second in one behaviour

\* ------------------------------------------------------ program constants
LoginTtl == 60       \* expiresIn: "1m", in seconds
ResetTtl == 3600     \* expiresIn: "1h" and Date.now() + 60 * 60 * 1000, in seconds

\* ------------------------------------------------------------ value space
Users == {"u1", "u2"}            \* _id of the stored user documents
Secrets == {"s1", "s2"}          \* plaintext passwords
Undefined == "undefined"         \* a body field or header part that is missing
Null == "null"                   \* an absent document
NoDate == <<>>                   \* an unset Date field; a set one is <<seconds, milliseconds>>
NoToken == [sub |-> Null, iat |-> 0, exp |-> 0, sig |-> "none"]          \* an unset or missing token string
Malformed == [sub |-> Null, iat |-> 0, exp |-> 0, sig |-> "malformed"]   \* a string that is no JWT
Conns == 1..MaxConns
ClockSteps == {1, LoginTtl, ResetTtl}
Words == {"Bearer", "Basic", "BearerX"}   \* first word of an Authorization header
RoleNames == {"Admin", "User", "admin"}   \* role strings: the enum of the schema, and one outside it
Permissions == {"CREATE", "READ", "UPDATE", "DELETE"}
Required == {"READ", "DELETE"}            \* permissions a route asks for

Email(u) == <<"mail", u>>        \* email is unique per user
NoSuchEmail == <<"mail", "nobody">>
Emails == {Email(u) : u \in Users} \cup {NoSuchEmail}

VARIABLES
    now,        \* the clock, in whole seconds: Math.floor(Date.now() / 1000)
    ms,         \* the clock within the second: Date.now() is <<now, ms>>
    ticks,      \* advances of now so far
    users,      \* the users collection: _id -> document
    roles,      \* the roles collection: name -> permissions
    conn,       \* per connection: the request in flight, or Idle
    last,       \* the request that was answered last, with its response
    nreq,       \* requests accepted so far
    mailbox,    \* reset tokens delivered by sendMail
    sessions,   \* tokens delivered in a login response
    consumed,   \* history: tokens a changePassword succeeded with since forgotPassword last stored one for their user
    superseded, \* history: tokens that were stored and then overwritten by a different token
    leaked      \* reset tokens delivered in the payload of a response

vars == <<now, ms, ticks, users, roles, conn, last, nreq, mailbox, sessions, consumed, superseded, leaked>>

\* -------------------------------------------------------------------- clock
\* Date.now()
DateNow == <<now, ms>>

\* Date.now() + 60 * 60 * 1000
PlusResetTtl(t) == <<t[1] + ResetTtl, t[2]>>

\* the date d is later than the time t ($gt)
Later(d, t) == d[1] > t[1] \/ (d[1] = t[1] /\ d[2] > t[2])

\* ------------------------------------------------------------------- bcrypt
\* bcrypt.hash(secret, 10): the salt is random, fresh on every call; it is
\* numbered after the salt of the hash it replaces.
BcryptHash(secret, salt) == [pw |-> secret, salt |-> salt]

\* bcrypt.compareSync(secret, hash)
CompareSync(secret, hash) == hash.pw = secret

\* --------------------------------------------------------------------- jwt
\* jwt.sign({_id}, JWT_SECRETKEY, {expiresIn}) at second t: HS256 is
\* deterministic, so the token is a function of the subject, iat (in whole
\* seconds) and exp.
JwtSign(id, ttl, t) == [sub |-> id, iat |-> t, exp |-> t + ttl, sig |-> "good"]

\* the same claims under a signature that was not made with JWT_SECRETKEY
Forge(tok) == [tok EXCEPT !.sig = "bad"]

\* a verification that takes the exp claim for granted
JwtVerifyNoExpiry(tok, t) ==
    IF tok = NoToken THEN "jwt must be provided"
    ELSE IF tok = Malformed THEN "jwt malformed"
    ELSE IF tok.sig # "good" THEN "invalid signature"
    ELSE "ok"

\* jwt.verify(token, JWT_SECRETKEY) at time t: "ok", or the message of the
\* error it throws.
JwtVerify(tok, t) ==
    IF tok = NoToken THEN "jwt must be provided"
    ELSE IF tok = Malformed THEN "jwt malformed"
    ELSE IF tok.sig # "good" THEN "invalid signature"
    ELSE IF t >= tok.exp THEN "jwt expired"
    ELSE "ok"

\* ---------------------------------------------------------------- requests
\* an Authorization header is its first word and, after one space, the rest
NoHeader == [word |-> Undefined, token |-> NoToken]

Idle ==
    [op |-> "none", pc |-> "done",
     email |-> NoSuchEmail, password |-> Undefined,
     token |-> NoToken, newPassword |-> Undefined, confirmPassword |-> Undefined,
     header |-> NoHeader,
     user |-> Null, expires |-> NoDate,
     loaded |-> [passwordResetToken |-> NoToken, passwordResetExpires |-> NoDate],
     status |-> 0, message |-> "", payload |-> NoToken, sends |-> 0,
     unhandled |-> FALSE, next |-> FALSE, reqUser |-> Null,
     reads |-> 0, writes |-> 0,
     role |-> Undefined, permission |-> Undefined, id |-> Null,
     bodyRole |-> Undefined, docs |-> {},
     roleName |-> Undefined, roleNext |-> FALSE, permNext |-> FALSE]

\* res.status(s).json({message: m, payload: p}): the first call answers the
\* client; a later one throws ERR_HTTP_HEADERS_SENT and answers nothing.
Json(r, s, m, p) ==
    IF r.sends = 0
    THEN [r EXCEPT !.status = s, !.message = m, !.payload = p, !.sends = 1]
    ELSE [r EXCEPT !.sends = @ + 1]

\* a res.json() in a catch block: when it throws, nothing catches it
JsonInCatch(r, s, m) ==
    IF r.sends = 0
    THEN [r EXCEPT !.status = s, !.message = m, !.sends = 1]
    ELSE [r EXCEPT !.sends = @ + 1, !.unhandled = TRUE]

\* a res.json() in a try block whose catch answers 500
JsonInTry(r, s, m) ==
    IF r.sends = 0
    THEN Json(r, s, m, NoToken)
    ELSE JsonInCatch(Json(r, s, m, NoToken), 500,
                     "Cannot set headers after they are sent to the client")

\* payload: doc in a response that r has not answered before: the document
\* as res.json() serialises it, every stored path and _id
WithDocs(r, q, ds) == IF r.sends = 0 THEN [q EXCEPT !.docs = ds] ELSE q

Finish(r) == [r EXCEPT !.pc = "done"]

\* what a client can put in a request: tokens it was sent or shown, the same with
\* another signature, and garbage
Known == mailbox \cup sessions \cup leaked
Presentable == Known \cup {Forge(t) : t \in Known} \cup {Malformed}

\* a request is taken on the first free connection
Accept(c) ==
    /\ nreq < MaxReqs
    /\ conn[c] = Idle
    /\ \A d \in Conns : d < c => conn[d] # Idle

New(op) == [Idle EXCEPT !.op = op, !.pc = "run"]

\* the handler on connection c has run up to its next await, or to its end
Settle(c, r) ==
    IF r.pc = "done"
    THEN conn' = [conn EXCEPT ![c] = Idle] /\ last' = r
    ELSE conn' = [conn EXCEPT ![c] = r] /\ UNCHANGED last

\* ------------------------------------------------------------------- store
\* a user document as JSON.stringify renders it: the schema has no select:
\* false and no toJSON transform
ToJSON(id, doc) ==
    [_id |-> id, password |-> doc.password, role |-> doc.role,
     passwordResetToken |-> doc.passwordResetToken,
     passwordResetExpires |-> doc.passwordResetExpires]

\* the reset tokens that a payload shows
DocTokens(ds) == {d.passwordResetToken : d \in ds} \ {NoToken}

\* seedRoles(): the two role documents of role.seeder.js
SeedRoles ==
    [n \in {"Admin", "User"} |->
        IF n = "Admin" THEN {"CREATE", "READ", "UPDATE", "DELETE"} ELSE {"READ", "UPDATE"}]

\* a query that falls back on some document when none has the email
FindOneByEmailOrAny(email) ==
    IF \E u \in DOMAIN users : Email(u) = email
    THEN CHOOSE u \in DOMAIN users : Email(u) = email
    ELSE CHOOSE u \in DOMAIN users : TRUE

\* userModel.findOne({ email })
FindOneByEmail(email) ==
    IF \E u \in DOMAIN users : Email(u) = email
    THEN CHOOSE u \in DOMAIN users : Email(u) = email
    ELSE Null

\* a query that leaves out passwordResetToken: token
FindOneByResetAnyToken(id, tok, t) ==
    IF /\ id \in DOMAIN users
       /\ users[id].passwordResetExpires # NoDate
       /\ Later(users[id].passwordResetExpires, t)
    THEN id
    ELSE Null

\* userModel.findOne({ _id, passwordResetToken: token,
\*                     passwordResetExpires: { $gt: Date.now() } })
FindOneByReset(id, tok, t) ==
    IF /\ id \in DOMAIN users
       /\ users[id].passwordResetToken = tok
       /\ users[id].passwordResetExpires # NoDate
       /\ Later(users[id].passwordResetExpires, t)
    THEN id
    ELSE Null

\* the paths that existEmail.passwordResetToken = token and
\* existEmail.passwordResetExpires = ... mark modified: an assignment of the
\* value the document was loaded with modifies nothing
Modified(loaded, tok, expires) ==
    {f \in {"passwordResetToken"} : tok # loaded.passwordResetToken}
        \cup {f \in {"passwordResetExpires"} : expires # loaded.passwordResetExpires}

\* existEmail.save(): one update that sets the modified paths of the stored
\* document
SaveResetRequest(doc, loaded, tok, expires) ==
    [doc EXCEPT
        !.passwordResetToken =
            IF "passwordResetToken" \in Modified(loaded, tok, expires) THEN tok ELSE @,
        !.passwordResetExpires =
            IF "passwordResetExpires" \in Modified(loaded, tok, expires) THEN expires ELSE @]

\* a save that leaves passwordResetToken as it is
SaveNewPasswordKeepToken(doc, hash) ==
    [doc EXCEPT !.password = hash, !.passwordResetExpires = NoDate]

\* a save that leaves the password as it is
SaveNewPasswordKeepPassword(doc, hash) ==
    [doc EXCEPT !.passwordResetToken = NoToken, !.passwordResetExpires = NoDate]

\* user.password = hash; user.passwordResetToken = undefined;
\* user.passwordResetExpires = undefined; save() writes the three paths in
\* one update
SaveNewPassword(doc, hash) ==
    [doc EXCEPT !.password = hash,
                !.passwordResetToken = NoToken,
                !.passwordResetExpires = NoDate]

\* ----------------------------------------------------------- changePassword
\* a changePassword that compares the two passwords after the lookup
ChangePasswordRunCompareLast(r) ==
    IF JwtVerify(r.token, now) # "ok"
    THEN Finish(JsonInCatch(r, 500, JwtVerify(r.token, now)))
    ELSE LET u == FindOneByReset(r.token.sub, r.token, DateNow)
             q == [r EXCEPT !.reads = @ + 1]
         IN  IF r.newPassword # r.confirmPassword
             THEN Finish(Json(q, 400, "Passwords do not match", NoToken))
             ELSE IF u = Null
             THEN Finish(Json(q, 400, "Token expired or invalid", NoToken))
             ELSE [q EXCEPT !.user = u, !.pc = "save"]

\* changePassword up to its first await: the password comparison, jwt.verify
\* and the findOne query
ChangePasswordRun(r) ==
    IF r.newPassword # r.confirmPassword
    THEN Finish(Json(r, 400, "Passwords do not match", NoToken))
    ELSE IF JwtVerify(r.token, now) # "ok"
    THEN Finish(JsonInCatch(r, 500, JwtVerify(r.token, now)))
    ELSE LET u == FindOneByReset(r.token.sub, r.token, DateNow)
             q == [r EXCEPT !.reads = @ + 1]
         IN  IF u = Null
             THEN Finish(Json(q, 400, "Token expired or invalid", NoToken))
             ELSE [q EXCEPT !.user = u, !.pc = "save"]

ChangePasswordLookup(c, tok, np, cp) ==
    /\ Accept(c)
    /\ Settle(c, ChangePasswordRun([New("changePassword") EXCEPT
                      !.token = tok, !.newPassword = np, !.confirmPassword = cp]))
    /\ nreq' = nreq + 1
    /\ UNCHANGED <<leaked, roles, now, ms, ticks, users, mailbox, sessions, consumed, superseded>>

\* bcrypt.hash, then user.save(), then the 200; stored = FALSE is a save that
\* throws
ChangePasswordSave(c, stored) ==
    LET r == conn[c] IN
    /\ r.op = "changePassword"
    /\ r.pc = "save"
    /\ IF r.newPassword = Undefined
       THEN /\ Settle(c, Finish(JsonInCatch(r, 500, "Illegal arguments: undefined, number")))
            /\ UNCHANGED <<users, consumed>>
       ELSE IF ~stored \/ r.user \notin DOMAIN users
       THEN /\ Settle(c, Finish(JsonInCatch(r, 500, "save failed")))
            /\ UNCHANGED <<users, consumed>>
       ELSE /\ users' = [users EXCEPT ![r.user] =
                           SaveNewPassword(@, BcryptHash(r.newPassword, @.password.salt + 1))]
            /\ Settle(c, Finish(Json([r EXCEPT !.writes = @ + 1], 200,
                                      "Password reset successfully", NoToken)))
            /\ consumed' = consumed \cup {r.token}
    /\ UNCHANGED <<leaked, roles, now, ms, ticks, nreq, mailbox, sessions, superseded>>

\* ----------------------------------------------------------- forgotPassword
\* forgotPassword up to its save: findOne by email, the 404 that does not
\* return, jwt.sign and the two assignments
ForgotPasswordRun(r) ==
    LET u == FindOneByEmail(r.email)
        q == [r EXCEPT !.reads = @ + 1]
    IN  IF u = Null
        THEN Finish(JsonInCatch(Json(q, 404, "User not found", NoToken), 500,
                                "Cannot read properties of null (reading '_id')"))
        ELSE [q EXCEPT !.user = u,
                       !.loaded = [passwordResetToken |-> users[u].passwordResetToken,
                                   passwordResetExpires |-> users[u].passwordResetExpires],
                       !.token = JwtSign(u, ResetTtl, now),
                       !.expires = PlusResetTtl(DateNow),
                       !.pc = "save"]

ForgotPasswordLookup(c, email) ==
    /\ Accept(c)
    /\ Settle(c, ForgotPasswordRun([New("forgotPassword") EXCEPT !.email = email]))
    /\ nreq' = nreq + 1
    /\ UNCHANGED <<leaked, roles, now, ms, ticks, users, mailbox, sessions, consumed, superseded>>

\* a handler that goes on to sendMail when save() has thrown
ForgotPasswordSaveIgnoreFailure(c, stored) ==
    LET r == conn[c] IN
    /\ r.op = "forgotPassword"
    /\ r.pc = "save"
    /\ users' = IF stored /\ r.user \in DOMAIN users
                THEN [users EXCEPT ![r.user] = SaveResetRequest(@, r.loaded, r.token, r.expires)]
                ELSE users
    /\ Settle(c, [r EXCEPT !.pc = "mail"])
    /\ UNCHANGED <<leaked, roles, now, ms, ticks, nreq, mailbox, sessions, consumed, superseded>>

\* await existEmail.save(); stored = FALSE is a save that throws
ForgotPasswordSave(c, stored) ==
    LET r == conn[c] IN
    /\ r.op = "forgotPassword"
    /\ r.pc = "save"
    /\ IF ~stored \/ r.user \notin DOMAIN users
       THEN /\ Settle(c, Finish(JsonInCatch(r, 500, "save failed")))
            /\ UNCHANGED <<users, consumed, superseded>>
       ELSE LET old == users[r.user].passwordResetToken IN
            /\ users' = [users EXCEPT ![r.user] =
                           SaveResetRequest(@, r.loaded, r.token, r.expires)]
            /\ Settle(c, [r EXCEPT
                            !.writes = IF Modified(r.loaded, r.token, r.expires) = {}
                                       THEN @ ELSE @ + 1,
                            !.pc = "mail"])
            /\ consumed' = IF users'[r.user].passwordResetToken = NoToken
                           THEN consumed
                           ELSE {t \in consumed : t.sub # r.user}
            /\ superseded' = (superseded \cup ({old} \ {NoToken}))
                                 \ {users'[r.user].passwordResetToken}
    /\ UNCHANGED <<leaked, roles, now, ms, ticks, nreq, mailbox, sessions>>

\* await transporter.sendMail(...), then the 201; sent = FALSE is a sendMail
\* that throws
ForgotPasswordMail(c, sent) ==
    LET r == conn[c] IN
    /\ r.op = "forgotPassword"
    /\ r.pc = "mail"
    /\ IF sent
       THEN /\ mailbox' = mailbox \cup {r.token}
            /\ Settle(c, Finish(Json(r, 201, "Password Reset Link Sent Successfully...",
                                      NoToken)))
       ELSE /\ Settle(c, Finish(JsonInCatch(r, 500, "mail failed")))
            /\ UNCHANGED mailbox
    /\ UNCHANGED <<leaked, roles, now, ms, ticks, users, nreq, sessions, consumed, superseded>>

\* -------------------------------------------------------------------- login
\* login: findOne by email, compareSync, the 400 that does not return,
\* jwt.sign and the 201
LoginRun(r) ==
    LET u == FindOneByEmail(r.email)
        q == [r EXCEPT !.reads = @ + 1]
    IN  IF u = Null
        THEN Finish(JsonInCatch(q, 500, "Cannot read properties of null (reading 'password')"))
        ELSE LET p == IF CompareSync(r.password, users[u].password)
                      THEN q
                      ELSE Json(q, 400, "Invalid Credentials", NoToken)
                 s == Json([p EXCEPT !.user = u], 201, "User Logged in Successfully...",
                           JwtSign(u, LoginTtl, now))
             IN  IF p.sends = 0 THEN Finish(s)
                 ELSE Finish(JsonInCatch(s, 500, "Cannot set headers after they are sent to the client"))

Login(c, email, password) ==
    LET r == LoginRun([New("login") EXCEPT !.email = email, !.password = password]) IN
    /\ Accept(c)
    /\ Settle(c, r)
    /\ sessions' = sessions \cup ({r.payload} \ {NoToken})
    /\ nreq' = nreq + 1
    /\ UNCHANGED <<leaked, roles, now, ms, ticks, users, mailbox, consumed, superseded>>

\* ------------------------------------------------------------ authorization
\* authHeader.startsWith("Bearer")
StartsWithBearer(h) == h.word \in {"Bearer", "BearerX"}

\* authHeader.startsWith("Bearer "): the scheme, a space, and the rest
StartsWithBearerSpace(h) == h.word = "Bearer" /\ h.token # NoToken

\* authHeader.split(" ")[1]
SplitToken(h) == h.token

\* the authorization middleware: the header test whose 401 does not return,
\* split, Jwt.verify, req.user = decodeToken, next()
AuthorizationRun(r) ==
    LET h == r.header
        p == IF h = NoHeader \/ ~StartsWithBearer(h)
             THEN Json(r, 401, " Token not found!!", NoToken)
             ELSE r
    IN  IF h = NoHeader
        THEN Finish(JsonInCatch(p, 401, "unauthorized Access"))
        ELSE IF JwtVerify(SplitToken(h), now) # "ok"
        THEN Finish(JsonInCatch(p, 401, "unauthorized Access"))
        ELSE Finish([p EXCEPT !.reqUser = SplitToken(h).sub, !.next = TRUE])

Authorization(c, h) ==
    /\ Accept(c)
    /\ Settle(c, AuthorizationRun([New("authorization") EXCEPT !.header = h]))
    /\ nreq' = nreq + 1
    /\ UNCHANGED <<leaked, roles, now, ms, ticks, users, mailbox, sessions, consumed, superseded>>

\* ----------------------------------------------------------------- authRole
\* a comparison of the roles that ignores case
\* the middleware authRole(role) returns: await findById(req.user._id), then
\* the comparison; found = FALSE is a findById that rejects. Nothing catches
\* what the async function throws (the try of authRole encloses only the
\* return of the function), and Express 4 does not look at the promise: the
\* request gets no answer.
AuthRoleRunAnyCase(r, found) ==
    LET q == [r EXCEPT !.reads = @ + 1]
        lower(x) == IF x = "Admin" THEN "admin" ELSE x
    IN  IF ~found \/ r.reqUser \notin DOMAIN users
        THEN Finish([q EXCEPT !.unhandled = TRUE])
        ELSE IF lower(users[r.reqUser].role) = lower(r.role)
        THEN [q EXCEPT !.roleNext = TRUE, !.pc = "authPremiss"]
        ELSE Finish(JsonInCatch(q, 401, "Access Denied for this role"))

AuthRoleRun(r, found) ==
    LET q == [r EXCEPT !.reads = @ + 1] IN
    IF ~found \/ r.reqUser \notin DOMAIN users
    THEN Finish([q EXCEPT !.unhandled = TRUE])
    ELSE IF users[r.reqUser].role = r.role
    THEN [q EXCEPT !.roleNext = TRUE, !.pc = "authPremiss"]
    ELSE Finish(JsonInCatch(q, 401, "Access Denied for this role"))

\* a check made with findByIdAndUpdate(req.user._id, {role}) in place of
\* findById: it compares the role the document had and leaves the required
\* one in it
AuthRoleFindAndUpdate(c, found) ==
    /\ conn[c].pc = "authRole"
    /\ Settle(c, AuthRoleRun(conn[c], found))
    /\ users' = IF found /\ conn[c].reqUser \in DOMAIN users
                THEN [users EXCEPT ![conn[c].reqUser].role = conn[c].role]
                ELSE users
    /\ UNCHANGED <<leaked, roles, now, ms, ticks, nreq, mailbox, sessions, consumed, superseded>>

AuthRole(c, found) ==
    /\ conn[c].pc = "authRole"
    /\ Settle(c, AuthRoleRun(conn[c], found))
    /\ UNCHANGED <<leaked, roles, now, ms, ticks, users, nreq, mailbox, sessions, consumed, superseded>>

\* -------------------------------------------------------------- authPremiss
\* const role = await userModel.findById(req.user._id), and role.role as the
\* query of roleModel.findOne; found = FALSE is a findById that rejects
AuthPremissUserRun(r, found) ==
    LET q == [r EXCEPT !.reads = @ + 1] IN
    IF ~found \/ r.reqUser \notin DOMAIN users
    THEN Finish([q EXCEPT !.unhandled = TRUE])
    ELSE [q EXCEPT !.roleName = users[r.reqUser].role, !.pc = "authPremissRole"]

AuthPremissUser(c, found) ==
    /\ conn[c].pc = "authPremiss"
    /\ Settle(c, AuthPremissUserRun(conn[c], found))
    /\ UNCHANGED <<leaked, roles, now, ms, ticks, users, nreq, mailbox, sessions, consumed, superseded>>

\* a test that takes any permission of the role for the required one
AuthPremissRoleRunAnyPermission(r, found) ==
    LET q == [r EXCEPT !.reads = @ + 1] IN
    IF ~found \/ r.roleName \notin DOMAIN roles
    THEN Finish(JsonInCatch(q, 500, "Internal Server Error"))
    ELSE IF roles[r.roleName] # {}
    THEN [q EXCEPT !.permNext = TRUE, !.pc = "deleteUser"]
    ELSE Finish(JsonInTry(q, 401, "No Permission for this role"))

\* a test that takes a role without a document for one without permissions
AuthPremissRoleRunMissingDenied(r, found) ==
    LET q == [r EXCEPT !.reads = @ + 1] IN
    IF ~found
    THEN Finish(JsonInCatch(q, 500, "Internal Server Error"))
    ELSE IF r.roleName \in DOMAIN roles /\ r.permission \in roles[r.roleName]
    THEN [q EXCEPT !.permNext = TRUE, !.pc = "deleteUser"]
    ELSE Finish(JsonInTry(q, 401, "No Permission for this role"))

\* await roleModel.findOne({name: role.role}).then(...).catch(...): the
\* membership test, next() or the 401, and the 500 of the catch for a
\* rejected query or a role that is null; found = FALSE is a findOne that
\* rejects
AuthPremissRoleRun(r, found) ==
    LET q == [r EXCEPT !.reads = @ + 1] IN
    IF ~found \/ r.roleName \notin DOMAIN roles
    THEN Finish(JsonInCatch(q, 500, "Internal Server Error"))
    ELSE IF r.permission \in roles[r.roleName]
    THEN [q EXCEPT !.permNext = TRUE, !.pc = "deleteUser"]
    ELSE Finish(JsonInTry(q, 401, "No Permission for this role"))

AuthPremissRole(c, found) ==
    /\ conn[c].pc = "authPremissRole"
    /\ Settle(c, AuthPremissRoleRun(conn[c], found))
    /\ UNCHANGED <<leaked, roles, now, ms, ticks, users, nreq, mailbox, sessions, consumed, superseded>>

\* --------------------------------------------------------------- deleteUser
\* userController.deleteUser: findByIdAndDelete(id), the 404, the 200;
\* found = FALSE is a findByIdAndDelete that rejects
DeleteUser(c, found) ==
    LET r == conn[c] IN
    /\ r.pc = "deleteUser"
    /\ IF ~found
       THEN /\ Settle(c, Finish(JsonInCatch(r, 500, "delete failed")))
            /\ UNCHANGED users
       ELSE IF r.id \notin DOMAIN users
       THEN /\ Settle(c, Finish(JsonInTry(r, 404, "User not found")))
            /\ UNCHANGED users
       ELSE /\ users' = [u \in DOMAIN users \ {r.id} |-> users[u]]
            /\ Settle(c, Finish(WithDocs(r, JsonInTry([r EXCEPT !.writes = @ + 1], 200,
                                                      "User deleted successfully"),
                                         {ToJSON(r.id, users[r.id])})))
    /\ leaked' = leaked \cup DocTokens(last'.docs)
    /\ UNCHANGED <<roles, now, ms, ticks, nreq, mailbox, sessions, consumed, superseded>>

\* router.delete("/:id", authorization, authRole(role), authPremiss(permission),
\* deleteUser): authorization runs when the request is taken; if it calls
\* next(), authRole starts its findById
RouteRun(r) ==
    LET a == AuthorizationRun(r) IN
    IF a.next THEN [a EXCEPT !.pc = "authRole"] ELSE a

Route(c, h, role, permission, id) ==
    /\ Accept(c)
    /\ Settle(c, RouteRun([New("route") EXCEPT !.header = h, !.role = role,
                                                !.permission = permission, !.id = id]))
    /\ nreq' = nreq + 1
    /\ UNCHANGED <<leaked, roles, now, ms, ticks, users, mailbox, sessions, consumed, superseded>>

\* --------------------------------------------------------------- updateUser
\* userController.updateUser, on a route without authorization:
\* findByIdAndUpdate(id, req.body) with a role in the body (no validators run
\* on an update), the 400 without return when no file came, the profile image
\* and the 200; what follows the update writes only profileImage
UpdateUserRun(r, file) ==
    LET q == [r EXCEPT !.writes = IF r.id \in DOMAIN users THEN 1 ELSE 0]
        p == IF file THEN q ELSE Json(q, 400, "No file uploaded", NoToken)
    IN  IF r.id \notin DOMAIN users \/ ~file
        THEN Finish(JsonInCatch(p, 500, "Cannot read properties of undefined"))
        ELSE Finish(WithDocs(p, Json(p, 200, "User updated successfully", NoToken),
                             {ToJSON(r.id, [users[r.id] EXCEPT !.role = r.bodyRole])}))

UpdateUser(c, id, role, file) ==
    /\ Accept(c)
    /\ users' = IF id \in DOMAIN users THEN [users EXCEPT ![id].role = role] ELSE users
    /\ Settle(c, UpdateUserRun([New("updateUser") EXCEPT !.id = id, !.bodyRole = role], file))
    /\ nreq' = nreq + 1
    /\ leaked' = leaked \cup DocTokens(last'.docs)
    /\ UNCHANGED <<roles, now, ms, ticks, mailbox, sessions, consumed, superseded>>

\* -------------------------------------------------------------- getAllUsers
\* userController.getAllUsers, on a route without authorization: find(), the
\* 404 of an empty collection, the 200 with the documents as payload;
\* found = FALSE is a find that rejects
GetAllUsersRun(r, found) ==
    LET q == [r EXCEPT !.reads = @ + 1] IN
    IF ~found
    THEN Finish(JsonInCatch(q, 500, "find failed"))
    ELSE IF DOMAIN users = {}
    THEN Finish(Json(q, 404, "No users found", NoToken))
    ELSE Finish(WithDocs(q, Json(q, 200, "Users fetched successfully", NoToken),
                         {ToJSON(u, users[u]) : u \in DOMAIN users}))

GetAllUsers(c, found) ==
    /\ Accept(c)
    /\ Settle(c, GetAllUsersRun(New("getAllUsers"), found))
    /\ leaked' = leaked \cup DocTokens(last'.docs)
    /\ nreq' = nreq + 1
    /\ UNCHANGED <<roles, now, ms, ticks, users, mailbox, sessions, consumed, superseded>>

\* --------------------------------------------------------------- time passes
Tick(d) ==
    /\ ticks < MaxTicks
    /\ now' = now + d
    /\ ticks' = ticks + 1
    /\ UNCHANGED <<leaked, roles, ms, users, conn, last, nreq, mailbox, sessions, consumed, superseded>>

TickMs ==
    /\ ms < MaxMs
    /\ ms' = ms + 1
    /\ UNCHANGED <<leaked, roles, now, ticks, users, conn, last, nreq, mailbox, sessions, consumed, superseded>>

\* ------------------------------------------------------------ specification
\* the users collection after registration: every user has the password "s1"
\* and no reset pending, u1 has the default role and u2 is an administrator;
\* the roles collection as role.seeder.js leaves it
Init ==
    /\ now = 0
    /\ ms = 0
    /\ ticks = 0
    /\ users = [u \in Users |->
                  [password |-> BcryptHash("s1", 0),
                   role |-> IF u = "u1" THEN "User" ELSE "Admin",
                   passwordResetToken |-> NoToken,
                   passwordResetExpires |-> NoDate]]
    /\ roles = SeedRoles
    /\ leaked = {}
    /\ conn = [c \in Conns |-> Idle]
    /\ last = Idle
    /\ nreq = 0
    /\ mailbox = {}
    /\ sessions = {}
    /\ consumed = {}
    /\ superseded = {}

Headers == {NoHeader} \cup [word : Words, token : Presentable \cup {NoToken}]

Next ==
    \/ \E c \in Conns, tok \in Presentable, np, cp \in Secrets \cup {Undefined} :
           ChangePasswordLookup(c, tok, np, cp)
    \/ \E c \in Conns, stored \in BOOLEAN : ChangePasswordSave(c, stored)
    \/ \E c \in Conns, email \in Emails : ForgotPasswordLookup(c, email)
    \/ \E c \in Conns, stored \in BOOLEAN : ForgotPasswordSave(c, stored)
    \/ \E c \in Conns, sent \in BOOLEAN : ForgotPasswordMail(c, sent)
    \/ \E c \in Conns, email \in Emails, password \in Secrets : Login(c, email, password)
    \/ \E c \in Conns, h \in Headers : Authorization(c, h)
    \/ \E d \in ClockSteps : Tick(d)
    \/ TickMs

Spec == Init /\ [][Next]_vars

\* the requests of the role and permission checks: login for the tokens, the
\* guarded route, and updateUser and deleteUser, which change what the checks
\* read
NextRbac ==
    \/ \E c \in Conns, email \in Emails, password \in Secrets : Login(c, email, password)
    \/ \E c \in Conns, h \in Headers, role \in RoleNames, permission \in Required, id \in Users :
           Route(c, h, role, permission, id)
    \/ \E c \in Conns, found \in BOOLEAN : AuthRole(c, found)
    \/ \E c \in Conns, found \in BOOLEAN : AuthPremissUser(c, found)
    \/ \E c \in Conns, found \in BOOLEAN : AuthPremissRole(c, found)
    \/ \E c \in Conns, found \in BOOLEAN : DeleteUser(c, found)
    \/ \E c \in Conns, id \in Users, role \in RoleNames, file \in BOOLEAN :
           UpdateUser(c, id, role, file)

SpecRbac == Init /\ [][NextRbac]_vars

\* the requests of a client that reads the users list: the password reset
\* and getAllUsers
NextList ==
    \/ \E c \in Conns, tok \in Presentable, np \in Secrets : ChangePasswordLookup(c, tok, np, np)
    \/ \E c \in Conns, stored \in BOOLEAN : ChangePasswordSave(c, stored)
    \/ \E c \in Conns, email \in Emails : ForgotPasswordLookup(c, email)
    \/ \E c \in Conns, stored \in BOOLEAN : ForgotPasswordSave(c, stored)
    \/ \E c \in Conns, sent \in BOOLEAN : ForgotPasswordMail(c, sent)
    \/ \E c \in Conns, found \in BOOLEAN : GetAllUsers(c, found)
    \/ TickMs

SpecList == Init /\ [][NextList]_vars

\* ------------------------------------------------------------------ claims
\* the request that a step has just run on connection c: still in flight on
\* c, or answered; with nreq' # nreq /\ Accept(c) the step took it on c
Ran(c) == IF conn'[c] # Idle THEN conn'[c] ELSE last'

InvalidOrExpired(r) == r.status = 400 /\ r.message = "Token expired or invalid"

\* C1: once a changePassword has succeeded with the token forgotPassword
\* stored, every later changePassword with that token and two equal passwords,
\* with no forgotPassword write in between, is answered 400 "Token expired or
\* invalid" and changes no stored document.
C1_SingleUseSequential ==
    [][\A c \in Conns, tok \in consumed, s \in Secrets \cup {Undefined} :
          ChangePasswordLookup(c, tok, s, s) =>
              /\ InvalidOrExpired(Ran(c))
              /\ conn'[c] = Idle
              /\ users' = users]_vars

\* C2: of the changePassword requests in flight with the same stored token at
\* most one ends in a successful change: no save succeeds with a token that
\* another request has already consumed.
C2_SingleUseConcurrent ==
    [][\A c \in Conns :
          (ChangePasswordSave(c, TRUE) /\ conn[c].token \in consumed) =>
              last'.status # 200]_vars

\* C3: after forgotPassword has stored t1 and then overwritten it with t2, a
\* changePassword with t1 is answered 400 "Token expired or invalid", and a
\* changePassword with the stored, unexpired t2 finds the user and goes on to
\* the write.
C3_SupersededToken ==
    [][\A c \in Conns, tok \in Presentable, s \in Secrets :
          ChangePasswordLookup(c, tok, s, s) =>
              /\ tok \in superseded => InvalidOrExpired(Ran(c)) /\ conn'[c] = Idle
              /\ ( /\ tok.sub \in Users
                   /\ users[tok.sub].passwordResetToken = tok
                   /\ JwtVerify(tok, now) = "ok"
                   /\ \E old \in superseded : old.sub = tok.sub )
                 => Ran(c).pc = "save"]_vars

\* C4: a changePassword request gets past its lookup only if, at the lookup,
\* (a) the token verifies, (b) it is the token stored for the user its subject
\* names and (c) that user's stored expiry is later than now; and the write
\* of such a request changes the password of that user and of no other.
C4_AcceptOnlyIfAllThree ==
    [][\A c \in Conns :
          /\ (conn[c] = Idle /\ conn'[c].op = "changePassword") =>
                LET r == conn'[c] IN
                /\ r.pc = "save"
                /\ JwtVerify(r.token, now) = "ok"
                /\ r.user = r.token.sub
                /\ users[r.user].passwordResetToken = r.token
                /\ users[r.user].passwordResetExpires # NoDate
                /\ Later(users[r.user].passwordResetExpires, DateNow)
          /\ (conn[c].op = "changePassword" /\ conn'[c] = Idle) =>
                \A u \in Users :
                    users'[u].password # users[u].password =>
                        conn[c].user = u /\ conn[c].token.sub = u]_vars

W4_PasswordChanged ==
    /\ last.op = "changePassword"
    /\ last.status = 200
    /\ last.token.sub = last.user
    /\ users[last.user].password.pw = last.newPassword

\* C5: a changePassword whose two passwords differ is answered 400 "Passwords
\* do not match" whatever its token, having read and written nothing in the
\* store; no such request is ever in flight past that test.
C5_MismatchBeforeStore ==
    /\ (last.op = "changePassword" /\ last.newPassword # last.confirmPassword) =>
          /\ last.status = 400
          /\ last.message = "Passwords do not match"
          /\ last.sends = 1
          /\ last.reads = 0
          /\ last.writes = 0
    /\ \A c \in Conns :
          conn[c].op = "changePassword" => conn[c].newPassword = conn[c].confirmPassword

W5_MismatchWithStoredToken ==
    /\ last.op = "changePassword"
    /\ last.newPassword # last.confirmPassword
    /\ last.token.sub \in Users
    /\ users[last.token.sub].passwordResetToken = last.token
    /\ last.status = 400

\* C6: a changePassword whose token fails verification (bad signature,
\* expired, malformed) is answered like a used or superseded token: 400
\* "Token expired or invalid".
C6_VerificationFailureIsInvalidOrExpired ==
    [][\A c \in Conns, tok \in Presentable, s \in Secrets \cup {Undefined} :
          (ChangePasswordLookup(c, tok, s, s) /\ JwtVerify(tok, now) # "ok") =>
              InvalidOrExpired(Ran(c))]_vars

\* C7: a step of changePassword that ends the request in failure leaves the
\* users collection as it was; the step that answers 200 replaces the
\* user's password and clears passwordResetToken and passwordResetExpires in
\* that same step, for a request that is past its lookup, and touches no
\* other user; no step of changePassword changes the password without
\* clearing both fields or clears a field without changing the password.
C7_ResetAtomic ==
    [][\A c \in Conns :
          /\ (conn[c].op = "changePassword" /\ conn'[c] = Idle) =>
                LET u == conn[c].user IN
                IF last'.status = 200
                THEN /\ conn[c].pc = "save"
                     /\ last'.writes = 1
                     /\ users'[u].password # users[u].password
                     /\ users'[u].passwordResetToken = NoToken
                     /\ users'[u].passwordResetExpires = NoDate
                     /\ \A v \in Users \ {u} : users'[v] = users[v]
                ELSE users' = users /\ last'.writes = 0
          /\ (nreq' # nreq /\ Accept(c) /\ Ran(c).op = "changePassword") =>
                users' = users /\ Ran(c).writes = 0 /\ Ran(c).status # 200]_vars

W7_FailedAfterLookup ==
    /\ last.op = "changePassword"
    /\ last.status = 500
    /\ last.reads = 1
    /\ last.user \in Users
    /\ users[last.user].passwordResetToken = last.token

\* C8: passwordResetToken and passwordResetExpires of a user are both set or
\* both unset.
C8_TokenFieldsPaired ==
    \A u \in Users :
        (users[u].passwordResetToken = NoToken) <=> (users[u].passwordResetExpires = NoDate)

\* C9: a request whose Authorization header is absent or does not start with
\* "Bearer " is answered 401 and next() is not called.
C9_MalformedHeaderRejected ==
    (last.op = "authorization" /\ ~StartsWithBearerSpace(last.header)) =>
        last.status = 401 /\ ~last.next

\* C10: login answers 201 only with a token whose subject is the user of the
\* email and password presented; with "Bearer <token>" for such a token the
\* middleware, before the token's expiry, sets req.user._id to that user,
\* calls next() and answers nothing; from the expiry on, or when the
\* signature is not the server's, it answers 401 and does not call next().
C10_TokenRoundTrip ==
    [][\A c \in Conns, t \in sessions' :
          /\ (nreq' # nreq /\ Accept(c) /\ Ran(c).op = "login" /\ Ran(c).payload = t) =>
                /\ last'.status = 201
                /\ t.sub \in Users
                /\ Email(t.sub) = last'.email
                /\ CompareSync(last'.password, users[t.sub].password)
                /\ t.iat = now
          /\ Authorization(c, [word |-> "Bearer", token |-> t]) =>
                IF now < t.exp
                THEN last'.next /\ last'.reqUser = t.sub /\ last'.sends = 0
                ELSE last'.status = 401 /\ ~last'.next
          /\ Authorization(c, [word |-> "Bearer", token |-> Forge(t)]) =>
                last'.status = 401 /\ ~last'.next]_vars

W10_SessionTokenAccepted ==
    /\ last.op = "authorization"
    /\ last.header.word = "Bearer"
    /\ last.header.token \in sessions
    /\ last.next
    /\ last.reqUser = last.header.token.sub

\* C11: a token that login issued is accepted by the middleware at every time
\* less than one hour after it was issued.
C11_SessionTokenOneHour ==
    [][\A c \in Conns, t \in sessions :
          (Authorization(c, [word |-> "Bearer", token |-> t]) /\ now < t.iat + ResetTtl) =>
              last'.next /\ last'.reqUser = t.sub]_vars

\* C12: when the findById of authRole(R) finds the principal, the request
\* goes on to the next stage if and only if the role stored for the principal
\* at that moment is R, by exact string equality; otherwise it ends there.
C12_RoleDecision ==
    [][\A c \in Conns :
          (AuthRole(c, TRUE) /\ conn[c].reqUser \in DOMAIN users) =>
              /\ Ran(c).roleNext <=> (users[conn[c].reqUser].role = conn[c].role)
              /\ Ran(c).roleNext <=> (conn'[c] # Idle /\ conn'[c].pc = "authPremiss")
              /\ ~Ran(c).roleNext => ~Ran(c).permNext]_vars

W12_RoleChangedSinceLogin ==
    \E c \in Conns :
        /\ conn[c].op = "route"
        /\ conn[c].roleNext
        /\ conn[c].reqUser = "u1"
        /\ conn[c].role = "Admin"
        /\ conn[c].header.token \in sessions

\* C13: authPremiss(P) reads the role stored for the principal, and when a
\* role document of that name exists the request goes on to the handler if
\* and only if P is among the permissions of that document; otherwise it ends
\* there.
C13_PermissionDecision ==
    [][\A c \in Conns :
          /\ (AuthPremissUser(c, TRUE) /\ conn[c].reqUser \in DOMAIN users) =>
                conn'[c].roleName = users[conn[c].reqUser].role
          /\ (AuthPremissRole(c, TRUE) /\ conn[c].roleName \in DOMAIN roles) =>
                /\ Ran(c).permNext <=> (conn[c].permission \in roles[conn[c].roleName])
                /\ Ran(c).permNext <=> (conn'[c] # Idle /\ conn'[c].pc = "deleteUser")]_vars

W13_DeleteDeniedReadAllowed ==
    /\ last.op = "route"
    /\ last.permission = "DELETE"
    /\ last.roleName \in DOMAIN roles
    /\ roles[last.roleName] = {"READ", "UPDATE"}
    /\ ~last.permNext
    /\ \E c \in Conns :
          /\ conn[c].permNext
          /\ conn[c].roleName \in DOMAIN roles
          /\ conn[c].permission \in roles[conn[c].roleName]

\* C14: a request that ends at the role check or at the permission check
\* because the role or the permission is not the required one is answered
\* 403.
C14_DeniedIsForbidden ==
    (/\ last.op = "route"
     /\ last.sends = 1
     /\ last.message \in {"Access Denied for this role", "No Permission for this role"})
        => last.status = 403

\* C15: when the role that authPremiss read for the principal names no role
\* document, the request is answered 500 and does not reach the handler.
C15_MissingRoleIsServerError ==
    [][\A c \in Conns :
          (AuthPremissRole(c, TRUE) /\ conn[c].roleName \notin DOMAIN roles
               /\ conn[c].sends = 0) =>
              /\ conn'[c] = Idle
              /\ last'.status = 500
              /\ last'.sends = 1
              /\ ~last'.permNext
              /\ users' = users]_vars

W15_RoleWithoutDocument ==
    /\ last.op = "route"
    /\ last.roleNext
    /\ last.roleName \in RoleNames \ DOMAIN roles
    /\ last.status = 500
    /\ last.message = "Internal Server Error"

\* C16: when the findById of authRole finds no document for the principal of
\* a verified token, the request is answered 401 or 404 and does not go on.
C16_MissingPrincipalUnauthenticated ==
    [][\A c \in Conns :
          (AuthRole(c, TRUE) /\ conn[c].reqUser \notin DOMAIN users /\ conn[c].sends = 0) =>
              /\ conn'[c] = Idle
              /\ last'.status \in {401, 404}
              /\ ~last'.roleNext]_vars

C18_ChecksReadOnly ==
    [][\A c \in Conns, found \in BOOLEAN :
          (AuthRole(c, found) \/ AuthPremissUser(c, found) \/ AuthPremissRole(c, found)) =>
              /\ users' = users
              /\ roles' = roles
              /\ \A r \in {conn[c]} :
                    /\ AuthRoleRun(r, found)' = AuthRoleRun(r, found)
                    /\ AuthPremissUserRun(r, found)' = AuthPremissUserRun(r, found)
                    /\ AuthPremissRoleRun(r, found)' = AuthPremissRoleRun(r, found)]_vars

W18_CheckedTwice ==
    \E c \in Conns :
        /\ conn[c].op = "route"
        /\ conn[c].roleNext
        /\ last.op = "route"
        /\ last.roleNext
        /\ last.reqUser = conn[c].reqUser
        /\ last.role = conn[c].role
        /\ users[last.reqUser].role = last.role

\* C19: a forgotPassword whose email is the email of no user is answered 404
\* "User not found" and ends there: it signs no token, writes nothing to the
\* users collection and sends no mail.
C19_UnknownEmailNotFound ==
    [][\A c \in Conns, e \in Emails :
          (ForgotPasswordLookup(c, e) /\ \A u \in DOMAIN users : Email(u) # e) =>
              /\ conn'[c] = Idle
              /\ last'.status = 404
              /\ last'.message = "User not found"
              /\ last'.token = NoToken
              /\ last'.writes = 0
              /\ users' = users
              /\ mailbox' = mailbox]_vars

W19_UnknownEmailWhileResetPending ==
    /\ last.op = "forgotPassword"
    /\ last.email = NoSuchEmail
    /\ last.status = 404
    /\ \E u \in Users : users[u].passwordResetToken # NoToken

\* C20: a forgotPassword whose save throws is answered 500 and sends no mail;
\* mail is sent only by a request whose save has returned, and carries that
\* request's token; a sendMail that throws is answered 500 and leaves the
\* users collection as it is. After that a forgotPassword for the same email
\* is taken up to its save, the save of a document nobody changed since it
\* was loaded stores the token and the expiry, the mail step answers 201, and
\* a changePassword with the stored, unexpired token and two equal passwords
\* gets to its save and is answered 200.
C20_MailAfterSave ==
    [][\A c \in Conns :
          /\ ForgotPasswordSave(c, FALSE) =>
                /\ conn'[c] = Idle
                /\ last'.status = 500
                /\ mailbox' = mailbox
                /\ users' = users
          /\ (conn'[c] # Idle /\ conn'[c].pc = "mail" /\ conn[c].pc # "mail") =>
                ForgotPasswordSave(c, TRUE)
          /\ mailbox' # mailbox =>
                \E d \in Conns :
                    /\ conn[d].op = "forgotPassword"
                    /\ conn[d].pc = "mail"
                    /\ mailbox' = mailbox \cup {conn[d].token}
          /\ ForgotPasswordMail(c, FALSE) =>
                /\ conn'[c] = Idle
                /\ last'.status = 500
                /\ users' = users
          /\ (nreq' # nreq /\ Accept(c) /\ Ran(c).op = "forgotPassword"
                  /\ \E u \in DOMAIN users : Email(u) = Ran(c).email) =>
                /\ Ran(c).pc = "save"
                /\ Email(Ran(c).user) = Ran(c).email
                /\ Ran(c).token = JwtSign(Ran(c).user, ResetTtl, now)
          /\ (ForgotPasswordSave(c, TRUE)
                  /\ users[conn[c].user].passwordResetToken = conn[c].loaded.passwordResetToken
                  /\ users[conn[c].user].passwordResetExpires = conn[c].loaded.passwordResetExpires) =>
                /\ users'[conn[c].user].passwordResetToken = conn[c].token
                /\ users'[conn[c].user].passwordResetExpires = conn[c].expires
          /\ ForgotPasswordMail(c, TRUE) =>
                /\ last'.status = 201
                /\ conn[c].token \in mailbox'
          /\ (nreq' # nreq /\ Accept(c) /\ Ran(c).op = "changePassword"
                  /\ Ran(c).newPassword = Ran(c).confirmPassword
                  /\ Ran(c).token.sub \in DOMAIN users
                  /\ users[Ran(c).token.sub].passwordResetToken = Ran(c).token
                  /\ users[Ran(c).token.sub].passwordResetExpires # NoDate
                  /\ Later(users[Ran(c).token.sub].passwordResetExpires, DateNow)
                  /\ now < Ran(c).token.exp) =>
                Ran(c).pc = "save"
          /\ (ChangePasswordSave(c, TRUE) /\ conn[c].newPassword # Undefined) =>
                last'.status = 200]_vars

W20_ResetAfterFailedMail ==
    /\ \A c \in Conns : conn[c] = Idle
    /\ last.op = "changePassword"
    /\ last.status = 200
    /\ last.token \in mailbox
    /\ \E t \in superseded : t.sub = last.user /\ t \notin mailbox

\* the request that a step has taken or moved on is the one on connection c
Stepped(c) == conn'[c] # conn[c] \/ (Accept(c) /\ nreq' # nreq)

\* C21: no document in the payload of a response has the password path.
C21_NoHashInResponse ==
    \A d \in last.docs : "password" \notin DOMAIN d

\* C22: the stored role of a user changes only in a step of a request that
\* passed authorization, the role check and the permission check.
C22_RoleChangeIsPrivileged ==
    [][\A u \in DOMAIN users \cap DOMAIN users' :
          users'[u].role # users[u].role =>
              \E c \in Conns :
                  /\ Stepped(c)
                  /\ Ran(c).next
                  /\ Ran(c).roleNext
                  /\ Ran(c).permNext]_vars

\* C23: a login whose email is the email of no user, or whose password does
\* not match the stored hash, is answered 400 "Invalid Credentials", once,
\* without a token.
C23_LoginFailureIsInvalidCredentials ==
    [][\A c \in Conns, e \in Emails, pw \in Secrets :
          (Login(c, e, pw)
               /\ (FindOneByEmail(e) = Null
                      \/ ~CompareSync(pw, users[FindOneByEmail(e)].password))) =>
              /\ last'.status = 400
              /\ last'.message = "Invalid Credentials"
              /\ last'.payload = NoToken
              /\ last'.sends = 1
              /\ sessions' = sessions]_vars

\* C24: a request that was answered with an error was answered once, was
\* not passed on with next(), and nothing it did after the answer threw.
C24_ErrorAnswerIsFinal ==
    last.status >= 400 =>
        /\ last.sends = 1
        /\ ~last.next
        /\ ~last.unhandled

\* C25: when deleteUser on the route with authRole("User") and
\* authPremiss("DELETE") deletes a user, the request's token was signed by the
\* server, both checks called next(), the role read for the principal was
\* "User" and the role document of "User" has "DELETE".
C25_DeleteOnlyAfterAllChecks ==
    [][\A c \in Conns :
          (DeleteUser(c, TRUE) /\ users' # users
               /\ conn[c].role = "User" /\ conn[c].permission = "DELETE") =>
              /\ conn[c].next
              /\ conn[c].header.token.sig = "good"
              /\ conn[c].roleNext
              /\ conn[c].permNext
              /\ conn[c].roleName = "User"
              /\ "DELETE" \in roles["User"]]_vars

\* C26: the write of a successful changePassword leaves a hash that the new
\* password matches and no other password does; a login with the email of a
\* user is answered 201 with a token if and only if its password matches the
\* hash stored at that moment.
C26_LoginFollowsPasswordChange ==
    [][\A c \in Conns :
          /\ (ChangePasswordSave(c, TRUE) /\ last'.status = 200 /\ conn'[c] = Idle) =>
                /\ CompareSync(conn[c].newPassword, users'[conn[c].user].password)
                /\ \A s \in Secrets \ {conn[c].newPassword} :
                      ~CompareSync(s, users'[conn[c].user].password)
          /\ \A u \in DOMAIN users, pw \in Secrets :
                Login(c, Email(u), pw) =>
                    /\ (last'.status = 201) <=> CompareSync(pw, users[u].password)
                    /\ (last'.status = 201) <=> (last'.payload = JwtSign(u, LoginTtl, now))
                    /\ (last'.status = 201) <=> (last'.payload \in sessions')]_vars

W26_LoginWithNewPassword ==
    /\ last.op = "login"
    /\ last.status = 201
    /\ last.password = "s2"
    /\ last.user \in DOMAIN users
    /\ users[last.user].password.salt > 0

\* C27: with the seeded roles and every stored role "Admin" or "User", no
\* request on the route with authRole("User") and authPremiss("DELETE")
\* reaches deleteUser, and none deletes a user.
C27_DeleteRouteNeverPasses ==
    [][\A c \in Conns :
          (/\ conn[c].op = "route"
           /\ conn[c].role = "User"
           /\ conn[c].permission = "DELETE"
           /\ roles = SeedRoles
           /\ \A u \in DOMAIN users : users[u].role \in {"Admin", "User"}) =>
              /\ ~(conn[c].pc # "deleteUser" /\ conn'[c].pc = "deleteUser")
              /\ Stepped(c) => users' = users]_vars

\* C28: a step of changePassword clears the stored token of a user only if it
\* is the token the request carries.
C28_OnlyOwnTokenCleared ==
    [][\A c \in Conns, u \in DOMAIN users :
          (/\ conn[c].op = "changePassword"
           /\ Stepped(c)
           /\ users[u].passwordResetToken # NoToken
           /\ users'[u].passwordResetToken # users[u].passwordResetToken) =>
              users[u].passwordResetToken = conn[c].token]_vars

\* C29: a changePassword succeeds only with a token that sendMail delivered.
C29_ResetOnlyWithMailedToken ==
    [][\A c \in Conns :
          (ChangePasswordSave(c, TRUE) /\ last'.status = 200 /\ conn'[c] = Idle) =>
              conn[c].token \in mailbox]_vars

\* C30: an updateUser that is answered with an error leaves the users
\* collection as it was; without a file it is answered 400 "No file
\* uploaded", and for an id of no user 404 "User not found".
C30_FailedUpdateWritesNothing ==
    [][\A c \in Conns, id \in Users, role \in RoleNames, file \in BOOLEAN :
          (UpdateUser(c, id, role, file) /\ last'.status >= 400) =>
              /\ users' = users
              /\ ~file => last'.status = 400 /\ last'.message = "No file uploaded"
              /\ (file /\ id \notin DOMAIN users) =>
                    last'.status = 404 /\ last'.message = "User not found"]_vars

====
